---- MODULE Spec2Model ----
(***************************************************************************)
(* A model of tadoku_stats (src/src/main.rs): the roster and profile       *)
(* extractors, the ranking engine get_table, the report writer print_stats *)
(* and the run in main.                                                    *)
(*                                                                         *)
(* Numbers.  The program's f64 values are modelled as integers counting    *)
(* thousandths, so 0.01 is 10 and 0.005 is 5.  NaN is one further value,   *)
(* outside the range of the numbers used, on which every comparison fails. *)
(* Vectors are indexed from 1 here and from 0 in the source.               *)
(***************************************************************************)
EXTENDS Integers, Sequences, FiniteSets, TLC

VARIABLES
    \* get_table
    vals,        \* keyfn(&users[x]) for each record x, in input order
    maxentries,  \* the cap; 0 means no cap
    usridx,      \* the vector of record indices being sorted, cut and filtered
    tablevec,    \* the table returned
    tpc,         \* position in get_table
    \* parse_mainpage
    document,    \* the <tr> rows of the ranking table body, in document order
    row,         \* number of rows already visited
    userids,     \* the vector `users` of parse_mainpage
    mpc,         \* position in parse_mainpage
    \* parse_userpage
    info,        \* words of the "Reading language(s)" info text
    js,          \* the progress_chart script, as its name:/data: occurrences
    seriesmap,   \* the record's seriesmap
    upc,         \* position in parse_userpage
    \* print_stats
    users,       \* the record set
    brief,       \* --brief
    html,        \* --html
    media,       \* media still to be printed
    languages,   \* languages still to be printed
    table,       \* the table of the section being printed
    section,     \* the section being printed
    ds,          \* everything written to the destination so far
    spc,         \* position in print_stats
    \* main
    readjson,    \* --readjson given
    writejson,   \* --writejson given
    roster,      \* what parse_mainpage returned
    fetched,     \* the pages fetched so far, in order
    loaded,      \* the vector `users` of read_from_webpage / read_json
    report,      \* whether print_stats has been called
    jsonfile,    \* whether write_json has been called
    rpc          \* position in main

tvars == <<vals, maxentries, usridx, tablevec, tpc>>
mvars == <<document, row, userids, mpc>>
uvars == <<info, js, seriesmap, upc>>
svars == <<users, brief, html, media, languages, table, section, ds, spc>>
rvars == <<readjson, writejson, roster, fetched, loaded, report, jsonfile, rpc>>
vars == <<tvars, mvars, uvars, svars, rvars>>

\* ------------------------------------------------------------------ bounds

MaxRecords == 4
MaxCap == 2
MaxRows == 2
MaxTokens == 4
MaxUsers == 2

\* ------------------------------------------------------------- f64 values

NaN == -1
THRESHOLD == 10

IsNaN(x) == x = NaN

\* f64::partial_cmp
PartialCmp(a, b) ==
    IF IsNaN(a) \/ IsNaN(b) THEN "None"
    ELSE IF a < b THEN "Less"
    ELSE IF a > b THEN "Greater"
    ELSE "Equal"

\* f64 >=, false when either side is NaN
Ge(a, b) == ~IsNaN(a) /\ ~IsNaN(b) /\ a >= b

\* ---------------------------------------------------------------- vectors

Range(s) == {s[i] : i \in 1..Len(s)}

Min(a, b) == IF a < b THEN a ELSE b

\* Vec::truncate
VecTruncate(s, n) == SubSeq(s, 1, Min(n, Len(s)))

\* Vec::get, with the source's index from 0: the element in a vector of one,
\* or the empty vector for None
Get(s, k) == IF k + 1 <= Len(s) THEN <<s[k + 1]>> ELSE <<>>

Perms(n) == {p \in [1..n -> 1..n] : \A i, j \in 1..n : i /= j => p[i] /= p[j]}

\* -------------------------------------------------------------- get_table

\* a variant of TableCmp: the operands the other way round, an ascending sort
AscendingCmp(v, a, b) == PartialCmp(v[a], v[b])

\* the closure handed to sort_unstable_by: getv(b).partial_cmp(&getv(a))
TableCmp(v, a, b) == PartialCmp(v[b], v[a])

\* .unwrap() of a comparison with a NaN operand; a sort of two or more
\* elements compares every element at least once, a shorter one compares none
SortPanics(v) == Len(v) >= 2 /\ \E i \in 1..Len(v) : IsNaN(v[i])

\* sort_unstable_by: any arrangement the comparator accepts as sorted; the
\* order of elements that compare Equal is not specified
SortUnstableBy(v) ==
    {p \in Perms(Len(v)) :
        \A i, j \in 1..Len(v) : i < j => TableCmp(v, p[i], p[j]) /= "Greater"}

\* a variant of Truncate: the cap is not applied
KeepAll(idx, cap) == idx

\* if maxentries != 0 { usridx.truncate(maxentries) }
Truncate(idx, cap) == IF cap /= 0 THEN VecTruncate(idx, cap) ELSE idx

\* a variant of Retain: everything above zero is kept
RetainPositive(idx, v) == SelectSeq(idx, LAMBDA x : Ge(v[x], 1))

\* usridx.retain(|x| getv(x) >= 0.01)
Retain(idx, v) == SelectSeq(idx, LAMBDA x : Ge(v[x], THRESHOLD))

\* tablevec.push((&users[u].name, getv(&u))): the entry refers to record u
Tablevec(idx, v) == [i \in 1..Len(idx) |-> [user |-> idx[i], value |-> v[idx[i]]]]

\* every outcome of get_table for these metric values and this cap
GetTable(v, cap) ==
    IF SortPanics(v) THEN {[panicked |-> TRUE, table |-> <<>>]}
    ELSE {[panicked |-> FALSE, table |-> Tablevec(Retain(Truncate(p, cap), v), v)] :
             p \in SortUnstableBy(v)}

\* ------------------------------------------------- the parts not running

TIdle ==
    /\ vals = <<>> /\ maxentries = 0 /\ usridx = <<>> /\ tablevec = <<>>
    /\ tpc = "idle"

MIdle == document = <<>> /\ row = 0 /\ userids = <<>> /\ mpc = "idle"

UIdle == info = <<>> /\ js = <<>> /\ seriesmap = <<>> /\ upc = "idle"

SIdle ==
    /\ users = <<>> /\ brief = FALSE /\ html = FALSE /\ media = <<>>
    /\ languages = <<>> /\ table = <<>> /\ section = [part |-> "none", key |-> ""]
    /\ ds = <<>> /\ spc = "idle"

RIdle ==
    /\ readjson = FALSE /\ writejson = FALSE /\ roster = <<>> /\ fetched = <<>>
    /\ loaded = <<>> /\ report = FALSE /\ jsonfile = FALSE /\ rpc = "idle"

\* ------------------------------------------- get_table, statement by statement

MetricValues == {NaN, 0, 5, 10, 20}

SeqsUpTo(S, n) == UNION {[1..k -> S] : k \in 0..n}

TableInit ==
    /\ vals \in SeqsUpTo(MetricValues, MaxRecords)
    /\ maxentries \in 0..MaxCap
    /\ usridx = [i \in 1..Len(vals) |-> i]
    /\ tablevec = <<>>
    /\ tpc = "sort"
    /\ MIdle /\ UIdle /\ SIdle /\ RIdle

\* usridx.sort_unstable_by(...), which panics on a comparison with NaN
TableSort ==
    /\ tpc = "sort"
    /\ \/ /\ SortPanics(vals)
          /\ tpc' = "panic"
          /\ UNCHANGED usridx
       \/ /\ ~SortPanics(vals)
          /\ \E p \in SortUnstableBy(vals) : usridx' = p
          /\ tpc' = "truncate"
    /\ UNCHANGED <<vals, maxentries, tablevec, mvars, uvars, svars, rvars>>

TableTruncate ==
    /\ tpc = "truncate"
    /\ usridx' = Truncate(usridx, maxentries)
    /\ tpc' = "retain"
    /\ UNCHANGED <<vals, maxentries, tablevec, mvars, uvars, svars, rvars>>

TableRetain ==
    /\ tpc = "retain"
    /\ usridx' = Retain(usridx, vals)
    /\ tpc' = "build"
    /\ UNCHANGED <<vals, maxentries, tablevec, mvars, uvars, svars, rvars>>

TableBuild ==
    /\ tpc = "build"
    /\ tablevec' = Tablevec(usridx, vals)
    /\ tpc' = "done"
    /\ UNCHANGED <<vals, maxentries, usridx, mvars, uvars, svars, rvars>>

TableNext == TableSort \/ TableTruncate \/ TableRetain \/ TableBuild

SpecTable == TableInit /\ [][TableNext]_vars

\* --------------------------------------------------------- parse_mainpage

\* str::split("/"): an href is a vector of pieces, each "/" or free of "/"
Split(s) ==
    LET F[i \in 0..Len(s)] ==
            IF i = 0 THEN <<"">>
            ELSE IF s[i] = "/" THEN Append(F[i - 1], "")
            ELSE [F[i - 1] EXCEPT ![Len(F[i - 1])] = @ \o s[i]]
    IN F[Len(s)]

Last(s) == s[Len(s)]

First(s) == s[1]

\* userurl.split("/").last().unwrap()
Userid(userurl) == Last(Split(userurl))

\* a variant of HasPages: the cell is compared as a number
NumericNonZero(pagecount) == pagecount \notin {"0.0", "0", "0.00"}

\* pagecount != "0.0", a comparison of strings
HasPages(pagecount) == pagecount /= "0.0"

\* trnode.find(Name("a")).next().unwrap() and
\* trnode.find(Name("td")).nth(3).unwrap()
RowPanics(tr) == Len(tr.links) = 0 \/ Len(tr.cells) < 4

\* the body of the loop over the rows, applied to the vector so far
VisitRow(found, tr) ==
    IF HasPages(tr.cells[4]) THEN Append(found, Userid(First(tr.links)))
    ELSE found

Hrefs ==
    { <<"/", "users", "/", "801">>,
      <<"http:", "/", "/", "readmod.com", "/", "users", "/", "17", "/">>,
      <<"42">> }

PageCounts == {"0.0", "0", "0.00", "638.9"}

LinkLists == {<<>>} \cup {<<h>> : h \in Hrefs}
                 \cup {<<h, <<"/", "about">> >> : h \in Hrefs}

CellLists == {<<"1", "", "name", c>> : c \in PageCounts} \cup {<<"1", "", "name">>}

Rows == {[links |-> l, cells |-> c] : l \in LinkLists, c \in CellLists}

MainInit ==
    /\ document \in SeqsUpTo(Rows, MaxRows)
    /\ row = 0
    /\ userids = <<>>
    /\ mpc = "rows"
    /\ TIdle /\ UIdle /\ SIdle /\ RIdle

\* one turn of `for trnode in tablebody.find(Name("tr"))`
MainRow ==
    /\ mpc = "rows"
    /\ row < Len(document)
    /\ IF RowPanics(document[row + 1])
       THEN mpc' = "panic" /\ UNCHANGED <<row, userids>>
       ELSE /\ userids' = VisitRow(userids, document[row + 1])
            /\ row' = row + 1
            /\ mpc' = "rows"
    /\ UNCHANGED <<document, tvars, uvars, svars, rvars>>

\* return users
MainReturn ==
    /\ mpc = "rows"
    /\ row = Len(document)
    /\ mpc' = "done"
    /\ UNCHANGED <<document, row, userids, tvars, uvars, svars, rvars>>

MainNext == MainRow \/ MainReturn

SpecMain == MainInit /\ [][MainNext]_vars

\* every outcome of parse_mainpage as a whole
RECURSIVE ParseRows(_, _)
ParseRows(doc, found) ==
    IF doc = <<>> THEN [panicked |-> FALSE, users |-> found]
    ELSE IF RowPanics(Head(doc)) THEN [panicked |-> TRUE, users |-> <<>>]
    ELSE ParseRows(Tail(doc), VisitRow(found, Head(doc)))

ParseMainpage(doc) == ParseRows(doc, <<>>)

\* --------------------------------------------------------- parse_userpage

RECURSIVE Join(_)
\* [..].join(" ")
Join(words) ==
    IF words = <<>> THEN ""
    ELSE IF Len(words) = 1 THEN words[1]
    ELSE words[1] \o " " \o Join(Tail(words))

\* .skip(2)
Skip2(s) == SubSeq(s, 3, Len(s))

\* the reading-language label: split_whitespace().skip(2) joined by " "
Langs(words) == Join(Skip2(words))

\* captures of name: "([^"]*)" in order
Seriesnames(script) ==
    LET hits == SelectSeq(script, LAMBDA t : t.kind = "name")
    IN [i \in 1..Len(hits) |-> hits[i].name]

\* captures of data: \[([^\]]*)\] in order
DataCaptures(script) ==
    LET hits == SelectSeq(script, LAMBDA t : t.kind = "data")
    IN [i \in 1..Len(hits) |-> hits[i].data]

\* s.trim().parse::<f64>().unwrap() of each piece of ds.split(","); an empty
\* capture splits into one empty piece, which does not parse
DataPanics(script) == \E i \in 1..Len(DataCaptures(script)) : DataCaptures(script)[i] = <<>>

\* a variant of Entry0Copy: the last array is copied
LastArray(dataarrays) == dataarrays[Len(dataarrays)]

\* dataarrays[0].clone()
Entry0Copy(dataarrays) == dataarrays[1]

\* seriesnames.iter().cloned().zip(dataarrays).collect(): a later pair
\* replaces an earlier one of the same name
ZipCollect(names, arrays) ==
    LET n == Min(Len(names), Len(arrays))
    IN [k \in {names[i] : i \in 1..n} |->
           arrays[CHOOSE i \in 1..n : names[i] = k /\ \A j \in i + 1..n : names[j] /= k]]

\* HashMap::insert
Insert(map, k, v) == [x \in DOMAIN map \cup {k} |-> IF x = k THEN v ELSE map[x]]

\* lines 166 to 175
Seriesmap(script, words) ==
    LET names == Seriesnames(script)
        arrays == DataCaptures(script)
        zipped == ZipCollect(names, arrays)
    IN IF Len(names) = 1 THEN Insert(zipped, Langs(words), Entry0Copy(arrays))
       ELSE zipped

Labels == {"Overall", "jp"}

Arrays == {<<>>, <<20>>, <<0, 5>>}

Tokens ==
    {[kind |-> "name", name |-> l, data |-> <<>>] : l \in Labels}
        \cup {[kind |-> "data", name |-> "", data |-> a] : a \in Arrays}

Infos ==
    { <<"Reading", "language(s):">>,
      <<"Reading", "language(s):", "jp">>,
      <<"Reading", "language(s):", "Old", "Norse">>,
      <<"Reading", "language(s):", "Overall">> }

UserInit ==
    /\ info \in Infos
    /\ js \in SeqsUpTo(Tokens, MaxTokens)
    /\ seriesmap = <<>>
    /\ upc = "parse"
    /\ TIdle /\ MIdle /\ SIdle /\ RIdle

\* parse_userpage, from the script to the record
ParseUserpage ==
    /\ upc = "parse"
    /\ IF DataPanics(js) \/ Len(DataCaptures(js)) = 0
       THEN upc' = "panic" /\ UNCHANGED seriesmap
       ELSE seriesmap' = Seriesmap(js, info) /\ upc' = "done"
    /\ UNCHANGED <<info, js, tvars, mvars, svars, rvars>>

UserNext == ParseUserpage

SpecUser == UserInit /\ [][UserNext]_vars

\* ------------------------------------------------------------ print_stats

\* A HashMap is a vector of <<key, value>> pairs with distinct keys, in the
\* order its iterator yields them.

\* HashMap::keys
Keys(map) == [i \in 1..Len(map) |-> map[i][1]]

\* HashMap::get: the value in a vector of one, or the empty vector for None
MapGet(map, k) ==
    IF \E i \in 1..Len(map) : map[i][1] = k
    THEN <<map[CHOOSE i \in 1..Len(map) : map[i][1] = k][2]>>
    ELSE <<>>

\* Option::unwrap_or
UnwrapOr(opt, default) == IF opt = <<>> THEN default ELSE opt[1]

\* users.iter().flat_map(|u| u.countmap.keys())
\* users.iter().flat_map(|u| u.seriesmap.keys())
FlatKeys(maps) ==
    LET F[i \in 0..Len(maps)] == IF i = 0 THEN <<>> ELSE F[i - 1] \o Keys(maps[i])
    IN F[Len(maps)]

\* the bytes of the strings used as keys
Spell(str) ==
    CASE str = "Book" -> <<"B", "o", "o", "k">>
      [] str = "Manga" -> <<"M", "a", "n", "g", "a">>
      [] str = "Zine" -> <<"Z", "i", "n", "e">>
      [] str = "Overall" -> <<"O", "v", "e", "r", "a", "l", "l">>
      [] str = "Old Norse" -> <<"O", "l", "d", " ", "N", "o", "r", "s", "e">>
      [] str = "jp" -> <<"j", "p">>
      [] str = "en" -> <<"e", "n">>
      [] str = "hr" -> <<"h", "r">>
      [] str = "la" -> <<"l", "a">>
      [] str = "aa" -> <<"a", "a">>

Ascii ==
    <<" ", "A", "B", "C", "D", "E", "F", "G", "H", "I", "J", "K", "L", "M",
      "N", "O", "P", "Q", "R", "S", "T", "U", "V", "W", "X", "Y", "Z",
      "a", "b", "c", "d", "e", "f", "g", "h", "i", "j", "k", "l", "m",
      "n", "o", "p", "q", "r", "s", "t", "u", "v", "w", "x", "y", "z">>

Ord(ch) == CHOOSE i \in 1..Len(Ascii) : Ascii[i] = ch

\* usize::cmp
Cmp(a, b) == IF a < b THEN "Less" ELSE IF a > b THEN "Greater" ELSE "Equal"

\* String::cmp: byte by byte, a proper prefix first
StringCmp(a, b) ==
    LET x == Spell(a)
        y == Spell(b)
        d == {i \in 1..Min(Len(x), Len(y)) : x[i] /= y[i]}
    IN IF d = {} THEN Cmp(Len(x), Len(y))
       ELSE LET i == CHOOSE k \in d : \A j \in d : k <= j
            IN Cmp(Ord(x[i]), Ord(y[i]))

Langlist ==
    <<"jp", "en", "fr", "es", "de", "zh", "ru", "ko", "vi", "it", "pt", "el",
      "eo", "nl", "sv", "hr">>

\* lang_sort_idx: langlist.iter().position(|&x| x == s)
LangSortIdx(str) ==
    IF \E i \in 1..Len(Langlist) : Langlist[i] = str
    THEN <<(CHOOSE i \in 1..Len(Langlist) : Langlist[i] = str) - 1>>
    ELSE <<>>

\* a variant of LangComparator: the codes of the list come last
LangComparatorListedLast(a, b) ==
    LET aidx == LangSortIdx(a)
        bidx == LangSortIdx(b)
    IN IF aidx /= <<>> /\ bidx /= <<>> THEN Cmp(aidx[1], bidx[1])
       ELSE IF aidx /= <<>> THEN "Greater"
       ELSE IF bidx /= <<>> THEN "Less"
       ELSE StringCmp(a, b)

\* lang_comparator
LangComparator(a, b) ==
    LET aidx == LangSortIdx(a)
        bidx == LangSortIdx(b)
    IN IF aidx /= <<>> /\ bidx /= <<>> THEN Cmp(aidx[1], bidx[1])
       ELSE IF aidx /= <<>> THEN "Less"
       ELSE IF bidx /= <<>> THEN "Greater"
       ELSE StringCmp(a, b)

\* the comparison a sort is given: Ord::cmp for sort, the closure for sort_by
Compare(order, a, b) ==
    IF order = "lang_comparator" THEN LangComparator(a, b) ELSE StringCmp(a, b)

\* x goes before the first element that compares Greater than it
InsertSorted(t, x, order) ==
    LET later == {j \in 1..Len(t) : Compare(order, t[j], x) = "Greater"}
        k == IF later = {} THEN Len(t) + 1
             ELSE CHOOSE j \in later : \A i \in later : j <= i
    IN SubSeq(t, 1, k - 1) \o <<x>> \o SubSeq(t, k, Len(t))

\* slice::sort and slice::sort_by: a stable sort
SortBy(str, order) ==
    LET F[i \in 0..Len(str)] ==
            IF i = 0 THEN <<>> ELSE InsertSorted(F[i - 1], str[i], order)
    IN F[Len(str)]

\* Vec::dedup: of a run of equal neighbours the first is kept
Dedup(str) ==
    LET F[i \in 0..Len(str)] ==
            IF i = 0 THEN <<>>
            ELSE IF i > 1 /\ str[i] = str[i - 1] THEN F[i - 1]
            ELSE Append(F[i - 1], str[i])
    IN F[Len(str)]

\* lines 377 to 381
Media(us) ==
    Dedup(SortBy(FlatKeys([i \in 1..Len(us) |-> us[i].countmap]), "cmp"))

\* lines 383 to 388
Languages(us) ==
    Dedup(SortBy(SelectSeq(FlatKeys([i \in 1..Len(us) |-> us[i].seriesmap]),
                           LAMBDA x : x /= "Overall"),
                 "lang_comparator"))

OVERALL_CAP == 0
MEDIUM_CAP == 3
LANG_CAP == 10

\* |u| u.totalpoints
ByTotalpoints(us) == [i \in 1..Len(us) |-> us[i].totalpoints]

\* |u| *u.countmap.get(m).unwrap_or(&0.0)
ByCount(us, m) == [i \in 1..Len(us) |-> UnwrapOr(MapGet(us[i].countmap, m), 0)]

\* .iter().fold(0.0, |sum, x| sum + x)
Fold(series) ==
    LET F[i \in 0..Len(series)] == IF i = 0 THEN 0 ELSE F[i - 1] + series[i]
    IN F[Len(series)]

\* |u| u.seriesmap.get(l).unwrap_or(&emptyvec).iter().fold(0.0, ...)
BySeries(us, l) ==
    [i \in 1..Len(us) |-> Fold(UnwrapOr(MapGet(us[i].seriesmap, l), <<>>))]

\* medium_description
MediumDescription(m) ==
    CASE m = "Book" -> "book pages read"
      [] m = "Full Game" -> "full game screens read"
      [] m = "Game" -> "game screens read"
      [] m = "Lyrics" -> "lyrics read"
      [] m = "Manga" -> "manga pages read"
      [] m = "Net" -> "net pages read"
      [] m = "News" -> "news articles read"
      [] m = "Nico" -> "nico watched"
      [] m = "Sentences" -> "sentences read"
      [] m = "Subs" -> "minutes of subs watched"
      [] OTHER -> "raw counts"

\* medium_actor
MediumActor(m) ==
    CASE m = "Book" -> "book reader"
      [] m = "Full Game" -> "full-game reader"
      [] m = "Game" -> "game reader"
      [] m = "Lyrics" -> "lyric reader"
      [] m = "Manga" -> "manga reader"
      [] m = "Net" -> "net reader"
      [] m = "News" -> "news reader"
      [] m = "Nico" -> "nico reader/watcher"
      [] m = "Sentences" -> "sentence reader"
      [] m = "Subs" -> "subs reader/watcher"
      [] OTHER -> "thing reader"

\* medium_units
MediumUnits(m) ==
    CASE m = "Book" -> "pages"
      [] m = "Full Game" -> "screens"
      [] m = "Game" -> "screens"
      [] m = "Lyrics" -> "lyrics"
      [] m = "Manga" -> "pages"
      [] m = "Net" -> "pages"
      [] m = "News" -> "articles"
      [] m = "Nico" -> "nico"
      [] m = "Sentences" -> "sentences"
      [] m = "Subs" -> "minutes"
      [] OTHER -> "raw units"

\* langcode_to_name, with the names isolang gives the codes used here
LangcodeToName(code) ==
    CASE code = "jp" -> "Japanese"
      [] code = "en" -> "English"
      [] code = "hr" -> "Croatian"
      [] code = "la" -> "Latin"
      [] code = "aa" -> "Afar"
      [] OTHER -> "unidentified"

\* lang_table_title
LangTableTitle(l, t) ==
    IF Len(t) = 1 THEN "Top " \o LangcodeToName(l) \o " (" \o l \o ") reader"
    ELSE "Top " \o ToString(Len(t)) \o " " \o LangcodeToName(l)
             \o " (" \o l \o ") readers"

\* what is written: one item for a title, a table row, a sentence or a
\* closing line, each marked with the section it belongs to
Item(kind, sec, text, rank, name, value) ==
    [kind |-> kind, section |-> sec, text |-> text, rank |-> rank,
     name |-> name, value |-> value]

NoSection == [part |-> "none", key |-> ""]
OverallSection == [part |-> "overall", key |-> ""]
MediumSection(m) == [part |-> "medium", key |-> m]
LanguageSection(l) == [part |-> "language", key |-> l]

\* print_table: the title, a numbered row for each entry (the value with two
\* decimals), and the closing line
PrintTable(us, sec, title, t) ==
    <<Item("title", sec, title, 0, "", 0)>>
        \o [i \in 1..Len(t) |-> Item("row", sec, "", i, us[t[i].user].name, t[i].value)]
        \o <<Item("end", sec, "", 0, "", 0)>>

\* print_brief_medium_table: table.get(1) is named the top, table.get(2) the
\* honorable mention
PrintBriefMediumTable(us, sec, m, t) ==
    LET top == Get(t, 1)
        second == Get(t, 2)
    IN IF top = <<>> THEN <<>>
       ELSE <<Item("top", sec, MediumActor(m) \o " with " \o MediumDescription(m),
                   0, us[top[1].user].name, top[1].value)>>
            \o (IF second = <<>> THEN <<Item("close", sec, "", 0, "", 0)>>
                ELSE <<Item("mention", sec, MediumUnits(m), 0,
                            us[second[1].user].name, second[1].value),
                       Item("close", sec, "", 0, "", 0)>>)

UserNames == <<"ann", "bob", "cyd", "dee", "eli", "fay">>

Book30 == <<"Book", 30>>
Book40 == <<"Book", 40>>
Manga5 == <<"Manga", 5>>
Zine20 == <<"Zine", 20>>

CountMaps == {<<>>, <<Book30>>, <<Manga5, Book40>>, <<Zine20, Book30>>}

TotalPoints == {5, 20, 30}

SeriesMaps ==
    { << <<"Overall", <<20, 10>> >>, <<"jp", <<20, 10>> >> >>,
      << <<"jp", <<0, 0>> >>, <<"Overall", <<5, 40>> >>, <<"en", <<5, 40>> >> >>,
      << <<"la", <<10>> >>, <<"aa", <<20>> >>, <<"Overall", <<30>> >> >>,
      << <<"en", <<20>> >>, <<"Overall", <<20>> >>, <<"aa", <<5>> >> >>,
      << <<"Overall", <<40>> >>, <<"Old Norse", <<40>> >> >>,
      << <<"hr", <<0>> >>, <<"la", <<30>> >>, <<"Overall", <<30>> >> >> }

\* the records vary in their counts and totals, or in their series
Profiles ==
    {[countmap |-> c, totalpoints |-> p,
      seriesmap |-> << <<"Overall", <<5>> >>, <<"jp", <<5>> >> >>] :
         c \in CountMaps, p \in TotalPoints}
    \cup {[countmap |-> <<>>, totalpoints |-> 5, seriesmap |-> sm] :
             sm \in SeriesMaps}

Named(ps) ==
    [i \in 1..Len(ps) |->
        [name |-> UserNames[i], countmap |-> ps[i].countmap,
         seriesmap |-> ps[i].seriesmap, totalpoints |-> ps[i].totalpoints]]

StatsInit ==
    /\ \E ps \in SeqsUpTo(Profiles, MaxUsers) : users = Named(ps)
    /\ brief \in BOOLEAN
    /\ html \in BOOLEAN
    /\ media = <<>>
    /\ languages = <<>>
    /\ table = <<>>
    /\ section = NoSection
    /\ ds = <<>>
    /\ spc = "begin"
    /\ TIdle /\ MIdle /\ UIdle /\ RIdle

\* lines 377 to 388: the media and the languages, sorted and deduplicated
StatsBegin ==
    /\ spc = "begin"
    /\ media' = Media(users)
    /\ languages' = Languages(users)
    /\ spc' = "overall"
    /\ UNCHANGED <<users, brief, html, table, section, ds, tvars, mvars, uvars, rvars>>

\* lines 390 to 397: the Overall table, then the heading of the media
StatsOverall ==
    /\ spc = "overall"
    /\ \E r \in GetTable(ByTotalpoints(users), OVERALL_CAP) :
          IF r.panicked
          THEN spc' = "panic" /\ UNCHANGED <<table, section, ds>>
          ELSE /\ table' = r.table
               /\ section' = OverallSection
               /\ ds' = ds \o PrintTable(users, OverallSection, "Overall rankings", r.table)
                           \o (IF html
                               THEN <<Item("heading", NoSection, "MEDIUM CHAMPS", 0, "", 0)>>
                               ELSE <<>>)
               /\ spc' = "loops"
    /\ UNCHANGED <<users, brief, html, media, languages, tvars, mvars, uvars, rvars>>

\* one turn of `for m in media`
StatsMedium ==
    /\ spc = "loops"
    /\ media /= <<>>
    /\ LET m == Head(media)
       IN \E r \in GetTable(ByCount(users, m), MEDIUM_CAP) :
             IF r.panicked
             THEN spc' = "panic" /\ UNCHANGED <<media, table, section, ds>>
             ELSE /\ table' = r.table
                  /\ section' = MediumSection(m)
                  /\ media' = Tail(media)
                  /\ ds' = IF Len(r.table) = 0 THEN ds
                           ELSE IF brief
                           THEN ds \o PrintBriefMediumTable(users, MediumSection(m), m, r.table)
                           ELSE ds \o PrintTable(users, MediumSection(m),
                                        m \o " rankings (" \o MediumDescription(m) \o ")",
                                        r.table)
                  /\ spc' = "loops"
    /\ UNCHANGED <<users, brief, html, languages, tvars, mvars, uvars, rvars>>

\* one turn of `for l in languages`
StatsLanguage ==
    /\ spc = "loops"
    /\ media = <<>>
    /\ languages /= <<>>
    /\ LET l == Head(languages)
       IN \E r \in GetTable(BySeries(users, l), LANG_CAP) :
             IF r.panicked
             THEN spc' = "panic" /\ UNCHANGED <<languages, table, section, ds>>
             ELSE /\ table' = r.table
                  /\ section' = LanguageSection(l)
                  /\ languages' = Tail(languages)
                  /\ ds' = IF Len(r.table) = 0 THEN ds
                           ELSE ds \o PrintTable(users, LanguageSection(l),
                                        LangTableTitle(l, r.table), r.table)
                  /\ spc' = "loops"
    /\ UNCHANGED <<users, brief, html, media, tvars, mvars, uvars, rvars>>

\* the end of print_stats
StatsEnd ==
    /\ spc = "loops"
    /\ media = <<>>
    /\ languages = <<>>
    /\ spc' = "done"
    /\ UNCHANGED <<users, brief, html, media, languages, table, section, ds,
                   tvars, mvars, uvars, rvars>>

StatsNext == StatsBegin \/ StatsOverall \/ StatsMedium \/ StatsLanguage \/ StatsEnd

SpecStats == StatsInit /\ [][StatsNext]_vars

\* ------------------------------------------------- main, read_from_webpage

\* a variant of FetchResult: a failed fetch is passed over
FetchIgnoringErr(ok, next) == next

\* doc_from_url(..)? in read_from_webpage and the .unwrap() of its result in
\* main: an Err ends the run
FetchResult(ok, next) == IF ok THEN next ELSE "panic"

RankingUrl == "http://readmod.com/ranking"

\* "http://readmod.com/users/".to_string() + &uid
UserUrl(uid) == "http://readmod.com/users/" \o uid

RosterRows ==
    {[links |-> <<h>>, cells |-> <<"1", "", "name", c>>] :
        h \in {<<"/", "users", "/", "801">>, <<"/", "users", "/", "17">>},
        c \in {"0.0", "638.9"}}
    \cup {[links |-> <<>>, cells |-> <<"1", "", "name", "638.9">>]}

RunInit ==
    /\ readjson \in BOOLEAN
    /\ writejson \in BOOLEAN
    /\ ~(readjson /\ writejson)
    /\ document \in SeqsUpTo(RosterRows, MaxRows)
    /\ roster = <<>>
    /\ fetched = <<>>
    /\ loaded = <<>>
    /\ report = FALSE
    /\ jsonfile = FALSE
    /\ rpc = "start"
    /\ row = 0 /\ userids = <<>> /\ mpc = "idle"
    /\ TIdle /\ UIdle /\ SIdle

\* --readjson: File::open(..).unwrap() and read_json(..).unwrap(); the
\* records stand for themselves by their identifiers
RunReadJson ==
    /\ rpc = "start"
    /\ readjson
    /\ \E ok \in BOOLEAN :
          IF ok
          THEN /\ loaded' \in SeqsUpTo({"801", "17"}, MaxRows)
               /\ rpc' = "loaded"
          ELSE rpc' = "panic" /\ UNCHANGED loaded
    /\ UNCHANGED <<readjson, writejson, roster, fetched, report, jsonfile,
                   tvars, mvars, uvars, svars>>

\* lines 212 to 214: the ranking page is fetched and parsed
RunFetchRanking ==
    /\ rpc = "start"
    /\ ~readjson
    /\ \E ok \in BOOLEAN :
          /\ fetched' = Append(fetched, [url |-> RankingUrl, ok |-> ok])
          /\ IF ok /\ ~ParseMainpage(document).panicked
             THEN roster' = ParseMainpage(document).users
             ELSE UNCHANGED roster
          /\ rpc' = IF ok /\ ParseMainpage(document).panicked THEN "panic"
                    ELSE FetchResult(ok, "users")
    /\ UNCHANGED <<readjson, writejson, loaded, report, jsonfile,
                   tvars, mvars, uvars, svars>>

\* one turn of `for uid in userids`: the profile is fetched and parsed
RunFetchUser ==
    /\ rpc = "users"
    /\ Len(fetched) - 1 < Len(roster)
    /\ LET uid == roster[Len(fetched)]
       IN \E ok \in BOOLEAN, parsed \in BOOLEAN :
             /\ fetched' = Append(fetched, [url |-> UserUrl(uid), ok |-> ok])
             /\ loaded' = IF ok /\ parsed THEN Append(loaded, uid) ELSE loaded
             /\ rpc' = IF ok /\ ~parsed THEN "panic" ELSE FetchResult(ok, "users")
    /\ UNCHANGED <<readjson, writejson, roster, report, jsonfile,
                   tvars, mvars, uvars, svars>>

\* Ok(users), unwrapped in main
RunLoaded ==
    /\ rpc = "users"
    /\ Len(fetched) - 1 = Len(roster)
    /\ rpc' = "loaded"
    /\ UNCHANGED <<readjson, writejson, roster, fetched, loaded, report, jsonfile,
                   tvars, mvars, uvars, svars>>

\* --writejson: File::create(..).unwrap(), write_json, return
RunWriteJson ==
    /\ rpc = "loaded"
    /\ writejson
    /\ \E created \in BOOLEAN :
          IF created THEN jsonfile' = TRUE /\ rpc' = "exit"
          ELSE rpc' = "panic" /\ UNCHANGED jsonfile
    /\ UNCHANGED <<readjson, writejson, roster, fetched, loaded, report,
                   tvars, mvars, uvars, svars>>

\* lines 451 to 458: the destination is opened and print_stats is called
RunPrintStats ==
    /\ rpc = "loaded"
    /\ ~writejson
    /\ \E created \in BOOLEAN :
          IF created THEN report' = TRUE /\ rpc' = "exit"
          ELSE rpc' = "panic" /\ UNCHANGED report
    /\ UNCHANGED <<readjson, writejson, roster, fetched, loaded, jsonfile,
                   tvars, mvars, uvars, svars>>

RunNext ==
    \/ RunReadJson \/ RunFetchRanking \/ RunFetchUser \/ RunLoaded
    \/ RunWriteJson \/ RunPrintStats

SpecRun == RunInit /\ [][RunNext]_vars

\* ================================================================= claims

Values(t) == [i \in 1..Len(t) |-> t[i].value]

NoNaN(v) == \A i \in 1..Len(v) : ~IsNaN(v[i])

CountOf(s, x) == Cardinality({i \in 1..Len(s) : s[i] = x})

CountAbove(s, x) == Cardinality({i \in 1..Len(s) : s[i] > x})

NonIncreasing(s) == \A i, j \in 1..Len(s) : i < j => s[i] >= s[j]

\* how many entries the cap lets through
CapOf(n, cap) == IF cap = 0 THEN n ELSE Min(cap, n)

\* how many copies of x are among the k largest of the values v
AmongLargest(v, k, x) ==
    Min(CountOf(v, x), IF k > CountAbove(v, x) THEN k - CountAbove(v, x) ELSE 0)

\* C1: with comparable metric values, the table get_table returns is ordered
\* by non-increasing value, holds no value below 0.01, holds at most cap
\* entries when cap is nonzero, and is the first cap entries of the sorted
\* list with the values below 0.01 dropped.
C1_TableSortedCappedFiltered ==
    (tpc = "done" /\ NoNaN(vals)) =>
        /\ NonIncreasing(Values(tablevec))
        /\ \A i \in 1..Len(tablevec) : tablevec[i].value >= THRESHOLD
        /\ maxentries /= 0 => Len(tablevec) <= maxentries
        /\ \A x \in MetricValues \ {NaN} :
              CountOf(Values(tablevec), x) =
                  IF x >= THRESHOLD
                  THEN AmongLargest(vals, CapOf(Len(vals), maxentries), x)
                  ELSE 0

\* a table that the cap and the threshold both cut
C1_Witness ==
    /\ tpc = "done" /\ NoNaN(vals)
    /\ maxentries = 2 /\ Len(vals) >= 3
    /\ Len(tablevec) = 1
    /\ \E i \in 1..Len(vals) : vals[i] = 5

\* C2, as claimed: two entries of equal value stand in input order, and a
\* record left out by the cap comes later in the input than every listed
\* record of the same value.
C2_StableTies ==
    tpc = "done" =>
        /\ \A i, j \in 1..Len(tablevec) :
              (i < j /\ tablevec[i].value = tablevec[j].value)
                  => tablevec[i].user < tablevec[j].user
        /\ \A i \in 1..Len(tablevec) : \A r \in 1..Len(vals) :
              (vals[r] = tablevec[i].value /\ r \notin {e.user : e \in Range(tablevec)})
                  => tablevec[i].user < r

\* C2, amended: the table lists distinct records by non-increasing value and
\* no record left out has a value of at least 0.01 above that of a listed
\* one; the order of records of equal value, and which of them a cap keeps,
\* is not determined.
C2_TiesUnordered ==
    tpc = "done" =>
        /\ \A i, j \in 1..Len(tablevec) : i < j =>
              /\ tablevec[i].user /= tablevec[j].user
              /\ tablevec[i].value >= tablevec[j].value
        /\ \A i \in 1..Len(tablevec) : tablevec[i].value = vals[tablevec[i].user]
        /\ \A i \in 1..Len(tablevec) : \A r \in 1..Len(vals) :
              r \notin {e.user : e \in Range(tablevec)} => vals[r] <= tablevec[i].value

\* a table in which a cap kept the later of two tied records
C2_Witness ==
    /\ tpc = "done" /\ NoNaN(vals)
    /\ maxentries = 1 /\ Len(tablevec) = 1
    /\ \E r \in 1..Len(vals) : r < tablevec[1].user /\ vals[r] = tablevec[1].value

\* C5, as claimed: when some record's metric is NaN, get_table does not
\* return a table.
C5_NaNIsFatal == (\E i \in 1..Len(vals) : IsNaN(vals[i])) => tpc /= "done"

\* C10: with comparable metric values the values below 0.01 form a suffix of
\* the sorted list, dropping them before cutting to cap gives the same values
\* as cutting first, and so the table has exactly cap rows when at least cap
\* records reach 0.01 and fewer only when fewer records reach it.
C10_CapAndFilterCommute ==
    /\ (tpc = "truncate" /\ NoNaN(vals)) =>
          \A i, j \in 1..Len(usridx) :
              (i < j /\ vals[usridx[i]] < THRESHOLD) => vals[usridx[j]] < THRESHOLD
    /\ (tpc = "done" /\ NoNaN(vals)) =>
          /\ \A p \in SortUnstableBy(vals) :
                Values(Tablevec(Truncate(Retain(p, vals), maxentries), vals))
                    = Values(tablevec)
          /\ Len(tablevec) =
                CapOf(Cardinality({i \in 1..Len(vals) : vals[i] >= THRESHOLD}),
                      maxentries)

\* more records than cap reach 0.01 and others do not
C10_Witness ==
    /\ tpc = "done" /\ NoNaN(vals)
    /\ maxentries = 2 /\ Len(tablevec) = 2
    /\ Cardinality({i \in 1..Len(vals) : vals[i] >= THRESHOLD}) = 3
    /\ \E i \in 1..Len(vals) : vals[i] < THRESHOLD

RECURSIVE Concat(_)
Concat(pieces) == IF pieces = <<>> THEN "" ELSE pieces[1] \o Concat(Tail(pieces))

WellFormed(doc) ==
    \A i \in 1..Len(doc) : Len(doc[i].links) >= 1 /\ Len(doc[i].cells) >= 4

\* u is what follows the last "/" of h, or all of h when it holds none
IsFinalSegment(h, u) ==
    \E k \in 0..Len(h) :
        /\ k = 0 \/ h[k] = "/"
        /\ \A i \in k + 1..Len(h) : h[i] /= "/"
        /\ u = Concat(SubSeq(h, k + 1, Len(h)))

\* C6: for a well-formed listing parse_mainpage does not fail and returns,
\* in document order, one identifier for each row whose page-count cell is
\* not the string "0.0" (a row reading "0" or "0.00" is kept): the final path
\* segment of the row's profile link.
C6_RosterKeepsNonZeroRows ==
    WellFormed(document) =>
        /\ mpc /= "panic"
        /\ mpc = "done" =>
              LET kept == SelectSeq(document, LAMBDA tr : tr.cells[4] /= "0.0")
              IN /\ Len(userids) = Len(kept)
                 /\ \A i \in 1..Len(kept) :
                       IsFinalSegment(kept[i].links[1], userids[i])

\* a listing with a "0.0" row, which is dropped, and a "0.00" row, which is kept
C6_Witness ==
    /\ mpc = "done" /\ Len(document) = 2
    /\ document[1].cells[4] = "0.0" /\ document[2].cells[4] = "0.00"
    /\ userids = <<"801">>

\* C7: when the script holds exactly one series name, the record's seriesmap
\* has an entry under the reading-language label that equals the first data
\* array and the "Overall" entry; when it holds more than one, the seriesmap
\* is exactly the names paired with the arrays, with no entry added.
C7_SingleSeriesCopiedUnderLabel ==
    upc = "done" =>
        LET names == Seriesnames(js)
            arrays == DataCaptures(js)
            n == Min(Len(names), Len(arrays))
        IN /\ Len(names) = 1 =>
                 /\ Langs(info) \in DOMAIN seriesmap
                 /\ seriesmap[Langs(info)] = arrays[1]
                 /\ "Overall" \in DOMAIN seriesmap
                       => seriesmap[Langs(info)] = seriesmap["Overall"]
                 /\ DOMAIN seriesmap = {names[1], Langs(info)}
           /\ Len(names) > 1 =>
                 /\ DOMAIN seriesmap = {names[i] : i \in 1..n}
                 /\ \A k \in DOMAIN seriesmap : \E i \in 1..n :
                       names[i] = k /\ arrays[i] = seriesmap[k]

\* a profile with the one series "Overall" and the label "Old Norse"
C7_Witness ==
    /\ upc = "done"
    /\ Seriesnames(js) = <<"Overall">>
    /\ Len(DataCaptures(js)) = 2
    /\ DOMAIN seriesmap = {"Overall", "Old Norse"}
    /\ seriesmap["Old Norse"] = <<0, 5>>
    /\ seriesmap["Overall"] = <<0, 5>>

\* the items written for the section being printed
Written(kind) == SelectSeq(ds, LAMBDA it : it.kind = kind /\ it.section = section)

\* C3, as claimed: in brief mode a per-category table with at least one row
\* gets a sentence naming the participant of row 1 with that row's value,
\* and one with a second row gets the participant of row 2 named as the
\* honorable mention.
C3_BriefNamesRowsOneAndTwo ==
    (spc \in {"loops", "done"} /\ brief /\ section.part = "medium" /\ Len(table) >= 1) =>
        /\ \E i \in 1..Len(Written("top")) :
              /\ Written("top")[i].name = users[table[1].user].name
              /\ Written("top")[i].value = table[1].value
        /\ Len(table) >= 2 =>
              \E i \in 1..Len(Written("mention")) :
                  /\ Written("mention")[i].name = users[table[2].user].name
                  /\ Written("mention")[i].value = table[2].value

\* C4, as claimed: nothing is written for a table without rows, be it the
\* Overall table, a per-category table or a per-language table.
C4_EmptyTablesOmitted ==
    (section.part /= "none" /\ Len(table) = 0) =>
        \A i \in 1..Len(ds) : ds[i].section /= section

Listed(l) == \E i \in 1..Len(Langlist) : Langlist[i] = l

Position(l, list) == CHOOSE i \in 1..Len(list) : list[i] = l

\* the keys used here that are not in the preference list, in alphabetical order
Alphabetical == <<"Old Norse", "aa", "la">>

\* a is presented before b
Before(a, b) ==
    IF Listed(a) /\ Listed(b) THEN Position(a, Langlist) < Position(b, Langlist)
    ELSE IF Listed(a) THEN TRUE
    ELSE IF Listed(b) THEN FALSE
    ELSE Position(a, Alphabetical) < Position(b, Alphabetical)

InOrder(keys) == \A i, j \in 1..Len(keys) : i < j => Before(keys[i], keys[j])

SeriesKeys ==
    UNION {{users[i].seriesmap[k][1] : k \in 1..Len(users[i].seriesmap)} :
              i \in 1..Len(users)}

\* the keys of the per-language tables written so far, in the order written
LanguageTitles ==
    LET titles == SelectSeq(ds, LAMBDA it : it.kind = "title" /\ it.section.part = "language")
    IN [i \in 1..Len(titles) |-> titles[i].section.key]

RosterOf(doc) ==
    LET kept == SelectSeq(doc, LAMBDA tr : tr.cells[4] /= "0.0")
    IN [i \in 1..Len(kept) |-> kept[i].links[1][Len(kept[i].links[1])]]

\* C9: print_stats or write_json is called only once every record is there:
\* in a run against the site, after the ranking page and then the profile of
\* each roster entry, one each and in roster order, were fetched and parsed;
\* and once a fetch has failed the run is over, with no report and no record
\* file written.
C9_NoPartialOutput ==
    /\ (report \/ jsonfile) =>
          /\ rpc = "exit"
          /\ ~readjson =>
                /\ WellFormed(document)
                /\ roster = RosterOf(document)
                /\ loaded = roster
                /\ Len(fetched) = Len(roster) + 1
                /\ fetched[1] = [url |-> RankingUrl, ok |-> TRUE]
                /\ \A i \in 1..Len(roster) :
                      fetched[i + 1] = [url |-> UserUrl(roster[i]), ok |-> TRUE]
    /\ (\E i \in 1..Len(fetched) : ~fetched[i].ok) =>
          /\ rpc = "panic"
          /\ ~report
          /\ ~jsonfile
          /\ ~fetched[Len(fetched)].ok

\* a run against the site that wrote its report after two profiles
C9_Witness ==
    /\ report /\ ~readjson
    /\ roster = <<"17", "801">>
    /\ Len(fetched) = 3

\* a run that ended at the failed fetch of the second profile
C9_WitnessFailure ==
    /\ rpc = "panic" /\ ~report /\ ~jsonfile
    /\ Len(roster) = 2 /\ Len(fetched) = 3 /\ loaded = <<roster[1]>>
    /\ ~fetched[3].ok

====
